---- MODULE Spec2Model ----
(***************************************************************************)
(* libuEv on FreeRTOS (ridephysics/uev): the watcher registry, the         *)
(* dispatch loop uev_run, the timer and event watchers and the I/O         *)
(* selector task, as a state machine.                                      *)
(*                                                                         *)
(* The memory of the library is three variables: ctx (the one uev_ctx_t),  *)
(* uev (the uev_t watchers) and iot (the statics of iothread.c).  The      *)
(* library's routines are operators from a memory record                   *)
(*     m = [ctx, uev, iot, rc, errno]                                      *)
(* to the memory after the call, so that a routine that calls others is    *)
(* the composition the source writes.  The tasks (the loop task in         *)
(* uev_run, tasks and ISRs that post or set timers, the selector task)     *)
(* are actions over these operators.                                       *)
(***************************************************************************)
EXTENDS Integers, Sequences, FiniteSets, TLC

\* ------------------------------------------------------------------ bounds
NumWatchers == 3        \* watchers (uev_t objects) of the program
NumPosters  == 1        \* tasks/ISRs that call uev_event_post
MaxNow      == 6        \* the clock stops advancing at this millisecond
MaxTimeout  == 2        \* largest timeout/period handed to the timer calls
MaxWake     == 1        \* datagrams the wake socket queues (more are dropped)

NumFds      == 1        \* descriptors the I/O watchers are put on
NumIo       == 1        \* watchers used as I/O watchers where only I/O is looked at
MixMaxNow   == 2        \* where all kinds of watchers are mixed: the clock's end,
MixMaxTime  == 1        \*   and the largest timeout/period
NumTimers   == 1        \* watchers used as timers where only timers are looked at
portTICK_PERIOD_MS == 2  \* milliseconds per RTOS tick (set by the platform)

W       == 1 .. NumWatchers
Posters == 1 .. NumPosters
FDs     == 1 .. NumFds
TW      == 1 .. NumTimers
IW      == 1 .. NumIo
Times   == 0 .. MaxTimeout

\* --------------------------------------------------------------- constants
NULL == 0

UEV_ERROR == 1
UEV_READ  == 2
UEV_WRITE == 4
\* an event word is modelled as the set of its bits
UEV_EVENT_MASK == {UEV_ERROR, UEV_READ, UEV_WRITE}

UEV_ONCE     == 1
UEV_NONBLOCK == 2

UEV_IO_TYPE       == 1
UEV_TIMER_TYPE    == 2
UEV_TIMER_TS_TYPE == 3
UEV_EVENT_TYPE    == 4

UEV_EG_BIT_IO    == 1
UEV_EG_BIT_EVENT == 2
UEV_EG_BIT_TIMER == 4
UEV_EG_MASK      == {UEV_EG_BIT_IO, UEV_EG_BIT_EVENT, UEV_EG_BIT_TIMER}

\* stand-ins for 0xffffffffffffffff and for the infinite block time: a number
\* above every time and every tick count the model reaches
UINT64_MAX     == 1000000
portMAX_DELAY  == 1000000

EINVAL == 22
ERANGE == 34

\* ------------------------------------------------------------------- state
VARIABLES
    ctx,     \* uev_ctx_t: running, egh, egbits (the bits of the event group), watchers
    uev,     \* [W -> uev_t]
    iot,     \* iothread.c statics: task, list (the iolist), sock (queued wake bytes)
    ret,     \* rc and errno of the last API call
    lp,      \* the locals of uev_run and its position
    poster,  \* [Posters -> position of a uev_event_post call]
    setter,  \* position of a uev_timer_set call made by another task
    sel,     \* the locals of task_fn and its position
    now_ms,  \* the clock, in milliseconds
    fdready, \* [FDs -> the events each descriptor is ready for] (the environment)
    hist     \* history (ghost) variables the properties are stated on

vars == <<ctx, uev, iot, ret, lp, poster, setter, sel, now_ms, fdready, hist>>

\* the memory the library routines work on
Mem == [ctx |-> ctx, uev |-> uev, iot |-> iot, rc |-> ret.rc, errno |-> ret.errno]

SetMem(m) ==
    /\ ctx' = m.ctx
    /\ uev' = m.uev
    /\ iot' = m.iot
    /\ ret' = [rc |-> m.rc, errno |-> m.errno]

Fail(m, e) == [m EXCEPT !.rc = -1, !.errno = e]
Ok(m)      == [m EXCEPT !.rc = 0]

\* ------------------------------------------------------------ list macros
_UEV_INSERT(m, node) ==
    LET next == m.ctx.watchers
        u1   == IF next # NULL THEN [m.uev EXCEPT ![next].prev = node] ELSE m.uev
        u2   == [u1 EXCEPT ![node].next = next, ![node].prev = NULL]
    IN  [m EXCEPT !.ctx.watchers = node, !.uev = u2]

_UEV_REMOVE(m, node) ==
    LET prev == m.uev[node].prev
        next == m.uev[node].next
        u1   == IF prev # NULL THEN [m.uev EXCEPT ![prev].next = next] ELSE m.uev
        u2   == IF next # NULL THEN [u1 EXCEPT ![next].prev = prev] ELSE u1
        u3   == [u2 EXCEPT ![node].prev = NULL, ![node].next = NULL]
    IN  [m EXCEPT !.uev = u3,
                  !.ctx.watchers = IF m.ctx.watchers = node THEN next ELSE @]

\* list.h (iolist): list_add_tail, list_delete
list_add_tail(l, w) == Append(l, w)
list_delete(l, w)   == SelectSeq(l, LAMBDA x : x # w)

\* --------------------------------------------------------------- uev.c
_uev_set_flags(m, bits) == [m EXCEPT !.ctx.egbits = @ \cup bits]

_uev_timer_now == now_ms * 1000

\* the wake byte: sendto() on the wake socket; it fails when no socket exists
_uev_iothread_interrupt(m) ==
    IF m.iot.fd_local < 0 \/ m.iot.sock >= MaxWake THEN m
    ELSE [m EXCEPT !.iot.sock = @ + 1]

_uev_iothread_watcher_add(m, w) ==
    _uev_iothread_interrupt([m EXCEPT !.iot.list = list_add_tail(@, w)])

_uev_iothread_watcher_remove(m, w) ==
    _uev_iothread_interrupt([m EXCEPT !.iot.list = list_delete(@, w)])

_uev_watcher_active(m, w) == m.uev[w].active > 0

_uev_watcher_init(m, w, type, fd, events) ==
    LET m1 == [m EXCEPT !.uev[w].ctx = 1,
                        !.uev[w].type = type,
                        !.uev[w].active = 0,
                        !.uev[w].fd = fd,
                        !.uev[w].events = events,
                        !.uev[w].iot_events = {}]
    IN  Ok(IF type = UEV_TIMER_TS_TYPE THEN _UEV_INSERT(m1, w) ELSE m1)

_uev_watcher_start(m, w) ==
    IF m.uev[w].ctx = NULL THEN Fail(m, EINVAL)
    ELSE IF m.uev[w].type = UEV_IO_TYPE /\ m.uev[w].fd < 0 THEN Fail(m, EINVAL)
    ELSE IF _uev_watcher_active(m, w) THEN Ok(m)
    ELSE LET m1 == [m EXCEPT !.uev[w].active = 1]
             m2 == IF m.uev[w].type = UEV_IO_TYPE
                   THEN _uev_iothread_watcher_add(m1, w) ELSE m1
             m3 == IF m.uev[w].type # UEV_TIMER_TS_TYPE
                   THEN _UEV_INSERT(m2, w) ELSE m2
         IN  Ok(m3)

\* a stop that unlinks the watcher and leaves its active flag set
_uev_watcher_stop_keeps_active(m, w) ==
    IF ~_uev_watcher_active(m, w) THEN Ok(m)
    ELSE LET m2 == IF m.uev[w].type = UEV_IO_TYPE
                   THEN _uev_iothread_watcher_remove(m, w) ELSE m
             m3 == IF m.uev[w].type # UEV_TIMER_TS_TYPE
                   THEN _UEV_REMOVE(m2, w) ELSE m2
         IN  Ok(m3)

_uev_watcher_stop(m, w) ==
    IF ~_uev_watcher_active(m, w) THEN Ok(m)
    ELSE LET m1 == [m EXCEPT !.uev[w].active = 0]
             m2 == IF m.uev[w].type = UEV_IO_TYPE
                   THEN _uev_iothread_watcher_remove(m1, w) ELSE m1
             m3 == IF m.uev[w].type # UEV_TIMER_TS_TYPE
                   THEN _UEV_REMOVE(m2, w) ELSE m2
         IN  Ok(m3)

\* --------------------------------------------------------------- event.c
uev_event_init(m, w) ==
    LET m1 == _uev_watcher_init([m EXCEPT !.uev[w].posted = 0],
                                w, UEV_EVENT_TYPE, -1, {UEV_READ})
    IN  _uev_watcher_start(m1, w)

uev_event_stop(m, w) ==
    IF ~_uev_watcher_active(m, w) THEN Ok(m) ELSE _uev_watcher_stop(m, w)

\* --------------------------------------------------------------- timer.c
\* a uev_timer_set that stores the triple and wakes the loop before the range check
uev_timer_set_checks_late(m, w, timeout, period) ==
    IF w = NULL THEN Fail(m, EINVAL)
    ELSE IF m.uev[w].ctx = NULL THEN Fail(m, EINVAL)
    ELSE LET m1 == [m EXCEPT !.uev[w].timeout = timeout,
                             !.uev[w].period = period,
                             !.uev[w].deadline =
                                 IF m.ctx.running # 0 /\ timeout # 0
                                 THEN (_uev_timer_now \div 1000) + timeout ELSE 0]
             m2 == _uev_set_flags(m1, {UEV_EG_BIT_TIMER})
         IN  IF timeout < 0 \/ period < 0 THEN Fail(m2, ERANGE)
             ELSE _uev_watcher_start(m2, w)

uev_timer_set(m, w, timeout, period) ==
    IF w = NULL THEN Fail(m, EINVAL)
    ELSE IF m.uev[w].ctx = NULL THEN Fail(m, EINVAL)
    ELSE IF timeout < 0 \/ period < 0 THEN Fail(m, ERANGE)
    ELSE LET now == _uev_timer_now
             m1  == [m EXCEPT !.uev[w].timeout = timeout,
                              !.uev[w].period = period,
                              !.uev[w].deadline =
                                  IF m.ctx.running # 0 /\ timeout # 0
                                  THEN (now \div 1000) + timeout ELSE 0]
             m2  == _uev_set_flags(m1, {UEV_EG_BIT_TIMER})
         IN  _uev_watcher_start(m2, w)

uev_timer_init2(m, w, timeout, period, threadsafe) ==
    IF timeout < 0 \/ period < 0 THEN Fail(m, ERANGE)
    ELSE LET m1 == _uev_watcher_init(m, w,
                       IF threadsafe # 0 THEN UEV_TIMER_TS_TYPE ELSE UEV_TIMER_TYPE,
                       -1, {UEV_READ})
             m2 == uev_timer_set(m1, w, timeout, period)
         IN  IF m2.rc # 0 THEN Fail(_uev_watcher_stop(m2, w), m2.errno) ELSE Ok(m2)

uev_timer_init(m, w, timeout, period) == uev_timer_init2(m, w, timeout, period, 0)

uev_timer_start(m, w) ==
    LET m1 == IF m.uev[w].fd # -1 THEN _uev_watcher_stop(m, w) ELSE m
    IN  uev_timer_set(m1, w, m1.uev[w].timeout, m1.uev[w].period)

_uev_timer_stop(m, w) ==
    IF ~_uev_watcher_active(m, w) THEN Ok(m) ELSE _uev_watcher_stop(m, w)

uev_timer_stop(m, w) ==
    LET m1 == _uev_timer_stop(m, w)
    IN  IF m1.rc # 0 THEN m1 ELSE Ok(_UEV_REMOVE(m1, w))


\* --------------------------------------------------------------- io.c
\* the public I/O wrappers forward to the internal routines
uev_io_init(m, w, fd, events) ==
    IF fd < 0 THEN Fail(m, EINVAL)
    ELSE _uev_watcher_init(m, w, UEV_IO_TYPE, fd, events)

uev_io_start(m, w) == _uev_watcher_start(m, w)

uev_io_stop(m, w) == _uev_watcher_stop(m, w)

\* --------------------------------------------------------------- uev.c
uev_init(m) ==
    Ok([m EXCEPT !.ctx = [running |-> 0, egh |-> "valid", egbits |-> {},
                          watchers |-> NULL]])

\* a teardown that handles the head of the list only
uev_exit_foreach_head_only(m, node, fuel) ==
    IF node = NULL \/ fuel = 0 THEN m
    ELSE LET m1   == _UEV_REMOVE(m, node)
             type == m1.uev[node].type
         IN  IF ~_uev_watcher_active(m1, node) THEN m1
             ELSE IF type = UEV_IO_TYPE THEN uev_io_stop(m1, node)
             ELSE IF type \in {UEV_TIMER_TYPE, UEV_TIMER_TS_TYPE}
                  THEN uev_timer_stop(m1, node)
             ELSE IF type = UEV_EVENT_TYPE THEN uev_event_stop(m1, node)
             ELSE m1

\* the body of uev_exit's _UEV_FOREACH, from node on; next is read before the body
RECURSIVE uev_exit_foreach(_, _, _)
uev_exit_foreach(m, node, fuel) ==
    IF node = NULL \/ fuel = 0 THEN m
    ELSE LET next == m.uev[node].next
             m1   == _UEV_REMOVE(m, node)
             type == m1.uev[node].type
             m2   == IF ~_uev_watcher_active(m1, node) THEN m1
                     ELSE IF type = UEV_IO_TYPE THEN uev_io_stop(m1, node)
                     ELSE IF type \in {UEV_TIMER_TYPE, UEV_TIMER_TS_TYPE}
                          THEN uev_timer_stop(m1, node)
                     ELSE IF type = UEV_EVENT_TYPE THEN uev_event_stop(m1, node)
                     ELSE m1
         IN  uev_exit_foreach(m2, next, fuel - 1)

uev_exit(m) ==
    LET m1 == uev_exit_foreach(m, m.ctx.watchers, NumWatchers + 1)
    IN  Ok([m1 EXCEPT !.ctx.watchers = NULL, !.ctx.running = 0, !.ctx.egh = "deleted"])

\* "Start all dormant timers": the _UEV_FOREACH at the entry of uev_run, from node
\* on; the result is the memory and next_deadline
\* an entry loop that starts the timers and keeps the deadlines they have
RECURSIVE uev_run_rearm_keeps_deadline(_, _, _, _)
uev_run_rearm_keeps_deadline(m, node, next_deadline, fuel) ==
    IF node = NULL \/ fuel = 0 THEN [m |-> m, next_deadline |-> next_deadline]
    ELSE LET next == m.uev[node].next
             isT  == m.uev[node].type \in {UEV_TIMER_TYPE, UEV_TIMER_TS_TYPE}
             m1   == IF isT
                     THEN _uev_watcher_start(_uev_set_flags(m, {UEV_EG_BIT_TIMER}), node)
                     ELSE m
             nd   == IF isT /\ m1.uev[node].deadline < next_deadline
                     THEN m1.uev[node].deadline ELSE next_deadline
         IN  uev_run_rearm_keeps_deadline(m1, next, nd, fuel - 1)

RECURSIVE uev_run_rearm(_, _, _, _)
uev_run_rearm(m, node, next_deadline, fuel) ==
    IF node = NULL \/ fuel = 0 THEN [m |-> m, next_deadline |-> next_deadline]
    ELSE LET next == m.uev[node].next
             isT  == m.uev[node].type \in {UEV_TIMER_TYPE, UEV_TIMER_TS_TYPE}
             m1   == IF isT
                     THEN uev_timer_set(m, node, m.uev[node].timeout, m.uev[node].period)
                     ELSE m
             nd   == IF isT /\ m1.uev[node].deadline < next_deadline
                     THEN m1.uev[node].deadline ELSE next_deadline
         IN  uev_run_rearm(m1, next, nd, fuel - 1)

\* a timer case that advances the deadline from the missed deadline, not from now
uev_run_timer_from_deadline(m, w, now, expired, next_deadline) ==
    LET m1 == IF expired /\ m.uev[w].period = 0
              THEN [m EXCEPT !.uev[w].timeout = 0] ELSE m
        m2 == IF ~expired THEN m1
              ELSE IF m1.uev[w].timeout = 0 THEN _uev_timer_stop(m1, w)
              ELSE [m1 EXCEPT !.uev[w].deadline = @ + m1.uev[w].period]
        d  == m2.uev[w].deadline
    IN  [m |-> m2, runcb |-> expired,
         next_deadline |-> IF d # 0 /\ d < next_deadline THEN d ELSE next_deadline]

\* the timer case of the sweep, after its condition was evaluated to `expired`
uev_run_timer(m, w, now, expired, next_deadline) ==
    LET m1 == IF expired /\ m.uev[w].period = 0
              THEN [m EXCEPT !.uev[w].timeout = 0] ELSE m
        m2 == IF ~expired THEN m1
              ELSE IF m1.uev[w].timeout = 0 THEN _uev_timer_stop(m1, w)
              ELSE [m1 EXCEPT !.uev[w].deadline = now + m1.uev[w].period]
        d  == m2.uev[w].deadline
    IN  [m |-> m2, runcb |-> expired,
         next_deadline |-> IF d # 0 /\ d < next_deadline THEN d ELSE next_deadline]

\* a fire condition that lets a timer fire in the millisecond of its deadline
uev_run_expired_at_deadline(m, w, now) ==
    now > 0 /\ m.uev[w].deadline # 0 /\ now >= m.uev[w].deadline

uev_run_expired(m, w, now) ==
    now > 0 /\ m.uev[w].deadline # 0 /\ now > m.uev[w].deadline

uev_run_tickstowait(next_deadline, now) ==
    IF next_deadline = UINT64_MAX THEN portMAX_DELAY
    ELSE IF now >= next_deadline THEN 0
    ELSE IF next_deadline # 0 THEN (next_deadline - now) \div portTICK_PERIOD_MS
    ELSE 0

\* ------------------------------------------------------------------- Init
uev_zero ==
    [type |-> 0, ctx |-> NULL, fd |-> -1, active |-> 0, events |-> {},
     next |-> NULL, prev |-> NULL, iot_events |-> {},
     timeout |-> 0, period |-> 0, deadline |-> 0, posted |-> 0]

lp_idle ==
    [pc |-> "idle", flags |-> {}, next_deadline |-> UINT64_MAX, tickstowait |-> 0,
     wait_from |-> 0, bits |-> {}, node |-> NULL, next |-> NULL, events |-> {},
     now |-> 0, expired |-> FALSE,
     held |-> {}]   \* the locks the loop task holds

hist_init ==
    [cbs     |-> [w \in W |-> 0],      \* callbacks of w in the current iteration
     owed    |-> [w \in W |-> FALSE],  \* w was active and posted when the wait returned EVENT
     stopped |-> [w \in W |-> FALSE],  \* a stop call on w returned and no start since
     oneshot |-> [w \in W |-> 0],      \* callbacks of w as a one-shot since the user armed it
     last    |-> [w \in W |-> -1],     \* dispatcher time of w's last periodic callback since
                                       \*   its deadline was last set by uev_timer_set, or -1
     due     |-> [w \in W |-> FALSE],  \* w was a linked active timer with timeout 0 and a
                                       \*   period when the wait returned with the clock > 0
     listed  |-> {},                   \* the watchers of the list when uev_exit was called
     first   |-> FALSE,                \* uev_run was called and has not waited yet
     stale   |-> {},                   \* ... and found these timers with a deadline passed
     fresh   |-> {},                   \* timers initialised by a callback of this sweep
     ored    |-> {},                   \* bits the selector OR-ed in during the callback
     tasks   |-> 0,                    \* selector tasks created so far
     socks   |-> 0,                    \* wake sockets created so far
     aborted |-> FALSE]                \* an assertion has stopped the program

\* the state after uev_init(&ctx), with the watchers' storage zeroed
Init ==
    /\ ctx = [running |-> 0, egh |-> "valid", egbits |-> {}, watchers |-> NULL]
    /\ uev = [w \in W |-> uev_zero]
    /\ iot = [task |-> NULL, fd_local |-> -1, list |-> <<>>, sock |-> 0]
    /\ ret = [rc |-> 0, errno |-> 0]
    /\ lp = lp_idle
    /\ poster = [p \in Posters |-> NULL]
    /\ setter = [pc |-> "idle", w |-> NULL]
    /\ sel = [pc |-> "none", readfds |-> {}, writefds |-> {}, exceptfds |-> {}]
    /\ now_ms = 0
    /\ fdready = [fd \in FDs |-> {}]
    /\ hist = hist_init


\* ------------------------------------------------------- the loop task
\* the API calls that touch the watcher list are made by the loop task: before
\* uev_run, between two uev_run calls, or from a callback
\* the loop task is where user code runs and can enter a call: it is not spinning
\* on a lock it holds itself
LoopTask == lp.pc \in {"idle", "cb"} /\ lp.held = {}

Usable == ctx.egh = "valid"

Unlinked(w) == uev[w].prev = NULL /\ uev[w].next = NULL /\ ctx.watchers # w

\* a watcher is initialised as type t when its storage is fresh, or again after it
\* was stopped and left the list
MayInit(w, t) ==
    /\ uev[w].type \in {0, t}
    /\ uev[w].active = 0
    /\ Unlinked(w)
    /\ \A p \in Posters : poster[p] # w
    /\ setter.w # w

Min(a, b) == IF a < b THEN a ELSE b

\* the watchers reachable from `node` over next
RECURSIVE Reach(_, _, _)
Reach(u, node, fuel) ==
    IF node = NULL \/ fuel = 0 THEN {}
    ELSE {node} \cup Reach(u, u[node].next, fuel - 1)

Listed == Reach(uev, ctx.watchers, NumWatchers)

\* the node the sweep's walk stands on after k steps over next
RECURSIVE Walk(_, _, _)
Walk(u, node, k) ==
    IF node = NULL \/ k = 0 THEN node ELSE Walk(u, u[node].next, k - 1)

\* history: the user sets w's timer; a start call on w returns; a stop call returns
Armed(w)   == [hist EXCEPT !.oneshot[w] = 0, !.last[w] = -1,
                           !.owed[w] = FALSE, !.due[w] = FALSE]
Started(w) == [Armed(w) EXCEPT !.stopped[w] = FALSE]
Stopped(w) == [hist EXCEPT !.stopped[w] = TRUE, !.last[w] = -1,
                           !.owed[w] = FALSE, !.due[w] = FALSE, !.fresh = @ \ {w}]

Call_uev_event_init(w) ==
    /\ LoopTask /\ Usable /\ MayInit(w, UEV_EVENT_TYPE)
    /\ SetMem(uev_event_init(Mem, w))
    /\ hist' = Started(w)
    /\ UNCHANGED <<lp, poster, setter, sel, now_ms, fdready>>

Call_uev_event_stop(w) ==
    /\ LoopTask /\ Usable /\ uev[w].type = UEV_EVENT_TYPE
    /\ SetMem(uev_event_stop(Mem, w))
    /\ hist' = Stopped(w)
    /\ UNCHANGED <<lp, poster, setter, sel, now_ms, fdready>>

Call_uev_timer_init2(w, timeout, period, threadsafe) ==
    /\ LoopTask /\ Usable
    /\ MayInit(w, IF threadsafe # 0 THEN UEV_TIMER_TS_TYPE ELSE UEV_TIMER_TYPE)
    /\ SetMem(uev_timer_init2(Mem, w, timeout, period, threadsafe))
    /\ hist' = [Started(w) EXCEPT !.fresh = IF lp.pc = "cb" THEN @ \cup {w} ELSE @]
    /\ UNCHANGED <<lp, poster, setter, sel, now_ms, fdready>>

\* uev_timer_init2 on the storage of a threadsafe timer whose life has ended (its
\* one-shot fired and the dispatcher stopped it): it is inactive and still linked
Call_uev_timer_init2_again(w, timeout, period) ==
    /\ LoopTask /\ Usable
    /\ uev[w].type = UEV_TIMER_TS_TYPE /\ uev[w].active = 0 /\ ~Unlinked(w)
    /\ setter.w # w
    /\ SetMem(uev_timer_init2(Mem, w, timeout, period, 1))
    /\ hist' = [Started(w) EXCEPT !.fresh = IF lp.pc = "cb" THEN @ \cup {w} ELSE @]
    /\ UNCHANGED <<lp, poster, setter, sel, now_ms, fdready>>

Call_uev_timer_set(w, timeout, period) ==
    /\ LoopTask /\ Usable
    /\ uev[w].type \in {UEV_TIMER_TYPE, UEV_TIMER_TS_TYPE}
    /\ setter.w # w
    /\ SetMem(uev_timer_set(Mem, w, timeout, period))
    /\ hist' = Started(w)
    /\ UNCHANGED <<lp, poster, setter, sel, now_ms, fdready>>

\* uev_timer_set with arguments it refuses: no watcher, a watcher that was never
\* initialised, a negative timeout or period
Call_uev_timer_set_refused(w, timeout, period) ==
    /\ LoopTask /\ Usable
    /\ IF w = NULL THEN TRUE
       ELSE IF uev[w].ctx = NULL THEN TRUE
       ELSE timeout < 0 \/ period < 0
    /\ SetMem(uev_timer_set(Mem, w, timeout, period))
    /\ UNCHANGED <<lp, poster, setter, sel, now_ms, fdready, hist>>

Call_uev_timer_start(w) ==
    /\ LoopTask /\ Usable
    /\ uev[w].type \in {UEV_TIMER_TYPE, UEV_TIMER_TS_TYPE}
    /\ setter.w # w
    /\ SetMem(uev_timer_start(Mem, w))
    /\ hist' = Started(w)
    /\ UNCHANGED <<lp, poster, setter, sel, now_ms, fdready>>

Call_uev_timer_stop(w) ==
    /\ LoopTask /\ Usable
    /\ uev[w].type \in {UEV_TIMER_TYPE, UEV_TIMER_TS_TYPE}
    /\ setter.w # w
    /\ SetMem(uev_timer_stop(Mem, w))
    /\ hist' = Stopped(w)
    /\ UNCHANGED <<lp, poster, setter, sel, now_ms, fdready>>

\* uev_run up to its while loop
Call_uev_run(flags) ==
    /\ lp.pc = "idle" /\ Usable
    /\ LET m1 == [Mem EXCEPT !.ctx.running = 1]
           r  == uev_run_rearm(m1, m1.ctx.watchers,
                               IF UEV_NONBLOCK \in flags THEN 0 ELSE UINT64_MAX,
                               NumWatchers + 1)
       IN  /\ SetMem(Ok(r.m))
           /\ lp' = [lp_idle EXCEPT !.pc = "loop", !.flags = flags,
                                    !.next_deadline = r.next_deadline]
    /\ hist' = [hist EXCEPT !.last = [w \in W |-> -1], !.first = TRUE,
                  !.stale = {w \in Listed :
                                /\ uev[w].type \in {UEV_TIMER_TYPE, UEV_TIMER_TS_TYPE}
                                /\ uev[w].timeout > 0 /\ uev[w].deadline > 0
                                /\ uev[w].deadline < now_ms}]
    /\ UNCHANGED <<poster, setter, sel, now_ms, fdready>>

\* while (atomic_load(&ctx->running)): the loop ends, or tickstowait is computed
uev_run_loop ==
    /\ lp.pc = "loop"
    /\ IF ctx.running = 0
       THEN lp' = lp_idle
       ELSE LET now == _uev_timer_now \div 1000
            IN  lp' = [lp EXCEPT !.pc = "wait", !.wait_from = now,
                          !.tickstowait = uev_run_tickstowait(lp.next_deadline, now)]
    /\ UNCHANGED <<ctx, uev, iot, ret, poster, setter, sel, now_ms, fdready, hist>>

\* xEventGroupWaitBits(egh, UEV_EG_MASK, pdTRUE, pdFALSE, tickstowait) returns: a bit
\* is set, or the block time is over (a block of n ticks ends with the n-th tick
\* interrupt, which is between n-1 and n tick periods away)
WaitTimedOut ==
    /\ lp.tickstowait # portMAX_DELAY
    /\ \/ lp.tickstowait = 0
       \/ now_ms - lp.wait_from >= (lp.tickstowait - 1) * portTICK_PERIOD_MS

uev_run_wait ==
    /\ lp.pc = "wait"
    /\ ctx.egbits # {} \/ WaitTimedOut
    /\ lp' = [lp EXCEPT !.pc = "sweep", !.bits = ctx.egbits,
                        !.tickstowait = 0, !.wait_from = 0,
                        !.next_deadline = UINT64_MAX, !.node = ctx.watchers]
    /\ ctx' = [ctx EXCEPT !.egbits = {}]
    /\ hist' = [hist EXCEPT
                  !.first = FALSE, !.stale = {},
                  !.cbs  = [w \in W |-> 0],
                  !.owed = [w \in W |-> /\ uev[w].type = UEV_EVENT_TYPE
                                        /\ uev[w].active = 1
                                        /\ uev[w].posted = 1
                                        /\ UEV_EG_BIT_EVENT \in ctx.egbits],
                  !.due  = [w \in W |-> /\ uev[w].type \in {UEV_TIMER_TYPE,
                                                             UEV_TIMER_TS_TYPE}
                                        /\ uev[w].active = 1
                                        /\ w \in Listed
                                        /\ uev[w].timeout = 0
                                        /\ uev[w].period > 0
                                        /\ now_ms > 0]]
    /\ UNCHANGED <<uev, iot, ret, poster, setter, sel, now_ms, fdready>>

\* the callback of lp.node is entered with `events`
EnterCb(l, events) ==
    /\ lp' = [l EXCEPT !.pc = "cb", !.events = events]
    /\ hist' = [hist EXCEPT !.cbs[lp.node] = Min(@ + 1, 2)]

\* the callback of the timer lp.node is entered; the timer case, run at dispatcher
\* time `now`, left the memory m
EnterTimerCb(l, m, now) ==
    /\ lp' = [l EXCEPT !.pc = "cb", !.events = {UEV_READ}]
    /\ hist' = [hist EXCEPT
                  !.cbs[lp.node] = Min(@ + 1, 2),
                  !.oneshot[lp.node] = IF m.uev[lp.node].active = 0
                                       THEN Min(@ + 1, 2) ELSE @,
                  !.last[lp.node] = IF m.uev[lp.node].active = 0 THEN -1 ELSE now]

\* one pass of the body of the sweep's _UEV_FOREACH, up to the callback
uev_run_visit ==
    /\ lp.pc = "sweep" /\ lp.node # NULL
    /\ LET w    == lp.node
           l    == [lp EXCEPT !.next = uev[w].next]
           skip == [lp EXCEPT !.node = uev[w].next, !.next = NULL]
           type == uev[w].type
       IN  IF uev[w].active = 0
           THEN lp' = skip /\ UNCHANGED <<ctx, uev, iot, ret, hist>>
           ELSE IF type = UEV_EVENT_TYPE
           THEN IF UEV_EG_BIT_EVENT \notin lp.bits
                THEN lp' = skip /\ UNCHANGED <<ctx, uev, iot, ret, hist>>
                ELSE /\ uev' = [uev EXCEPT ![w].posted = 0]
                     /\ IF uev[w].posted # 0
                        THEN EnterCb(l, {UEV_READ})
                        ELSE lp' = skip /\ UNCHANGED hist
                     /\ UNCHANGED <<ctx, iot, ret>>
           ELSE IF type = UEV_TIMER_TYPE
           THEN LET now == _uev_timer_now \div 1000
                    r   == uev_run_timer(Mem, w, now, uev_run_expired(Mem, w, now),
                                         lp.next_deadline)
                IN  /\ SetMem(r.m)
                    /\ IF r.runcb
                       THEN EnterTimerCb([l EXCEPT !.next_deadline = r.next_deadline],
                                         r.m, now)
                       ELSE /\ lp' = [skip EXCEPT !.next_deadline = r.next_deadline]
                            /\ UNCHANGED hist
           ELSE IF type = UEV_TIMER_TS_TYPE
           THEN LET now == _uev_timer_now \div 1000
                IN  /\ lp' = [l EXCEPT !.pc = "timer_cs", !.now = now,
                                       !.expired = uev_run_expired(Mem, w, now),
                                       !.held = {"_uev_mux"}]
                    /\ UNCHANGED <<ctx, uev, iot, ret, hist>>
           ELSE IF type = UEV_IO_TYPE
           THEN IF UEV_EG_BIT_IO \in lp.bits /\ uev[w].iot_events # {}
                THEN /\ EnterCb(l, uev[w].iot_events \cap UEV_EVENT_MASK)
                     /\ UNCHANGED <<ctx, uev, iot, ret>>
                ELSE lp' = skip /\ UNCHANGED <<ctx, uev, iot, ret, hist>>
           ELSE lp' = skip /\ UNCHANGED <<ctx, uev, iot, ret, hist>>
    /\ UNCHANGED <<poster, setter, sel, now_ms, fdready>>

\* a threadsafe timer's case that invokes the callback inside the critical section
uev_run_timer_cs_keeps_lock ==
    /\ lp.pc = "timer_cs"
    /\ LET w == lp.node
           r == uev_run_timer(Mem, w, lp.now, lp.expired, lp.next_deadline)
           l == [lp EXCEPT !.next_deadline = r.next_deadline, !.pc = "sweep"]
       IN  /\ SetMem(r.m)
           /\ IF r.runcb
              THEN EnterTimerCb([l EXCEPT !.now = 0, !.expired = FALSE,
                                          !.held = {"_uev_mux"}], r.m, lp.now)
              ELSE /\ lp' = [l EXCEPT !.node = l.next, !.next = NULL,
                                      !.now = 0, !.expired = FALSE, !.held = {}]
                   /\ UNCHANGED hist
    /\ UNCHANGED <<poster, setter, sel, now_ms, fdready>>

\* the rest of the threadsafe timer's case, inside the critical section,
\* which is left (_uev_critical_exit) before the callback is invoked
uev_run_timer_cs ==
    /\ lp.pc = "timer_cs"
    /\ LET w == lp.node
           r == uev_run_timer(Mem, w, lp.now, lp.expired, lp.next_deadline)
           l == [lp EXCEPT !.next_deadline = r.next_deadline, !.pc = "sweep",
                         !.held = {}]
       IN  /\ SetMem(r.m)
           /\ IF r.runcb
              THEN EnterTimerCb([l EXCEPT !.now = 0, !.expired = FALSE], r.m, lp.now)
              ELSE /\ lp' = [l EXCEPT !.node = l.next, !.next = NULL,
                                      !.now = 0, !.expired = FALSE]
                   /\ UNCHANGED hist
    /\ UNCHANGED <<poster, setter, sel, now_ms, fdready>>

\* a callback return that clears the delivered bits and sends no wake byte
uev_run_cb_return_no_wake ==
    /\ lp.pc = "cb"
    /\ uev' = IF uev[lp.node].type = UEV_IO_TYPE
              THEN [uev EXCEPT ![lp.node].iot_events = @ \ lp.events] ELSE uev
    /\ lp' = [lp EXCEPT !.pc = "sweep", !.node = lp.next, !.next = NULL, !.events = {}]
    /\ hist' = [hist EXCEPT !.ored = {}]
    /\ UNCHANGED <<ctx, iot, ret, poster, setter, sel, now_ms, fdready>>

\* the callback returns: the I/O watcher's delivered bits are cleared:
\* atomic_fetch_and(&w->iot.events, ~events); for the other watchers the sweep
\* goes on with the saved next
uev_run_cb_return ==
    /\ lp.pc = "cb"
    /\ IF uev[lp.node].type = UEV_IO_TYPE
       THEN /\ uev' = [uev EXCEPT ![lp.node].iot_events = @ \ lp.events]
            /\ lp' = [lp EXCEPT !.pc = "cb_wake", !.events = {}]
       ELSE /\ uev' = uev
            /\ lp' = [lp EXCEPT !.pc = "sweep", !.node = lp.next, !.next = NULL,
                                !.events = {}]
    /\ hist' = [hist EXCEPT !.ored = {}]
    /\ UNCHANGED <<ctx, iot, ret, poster, setter, sel, now_ms, fdready>>

\* ... and then the selector is interrupted: _uev_iothread_interrupt(); the sweep
\* goes on with the saved next
uev_run_cb_wake ==
    /\ lp.pc = "cb_wake"
    /\ iot' = _uev_iothread_interrupt(Mem).iot
    /\ lp' = [lp EXCEPT !.pc = "sweep", !.node = lp.next, !.next = NULL]
    /\ UNCHANGED <<ctx, uev, ret, poster, setter, sel, now_ms, fdready, hist>>

\* a sweep end that goes back to the wait whatever the flags
uev_run_sweep_end_no_break ==
    /\ lp.pc = "sweep" /\ lp.node = NULL
    /\ lp' = [lp EXCEPT !.pc = "loop", !.bits = {}]
    /\ hist' = [hist EXCEPT !.cbs = [w \in W |-> 0], !.owed = [w \in W |-> FALSE],
                            !.due = [w \in W |-> FALSE], !.fresh = {}]
    /\ UNCHANGED <<ctx, uev, iot, ret, poster, setter, sel, now_ms, fdready>>

\* the sweep is over: if (flags & UEV_ONCE) break
uev_run_sweep_end ==
    /\ lp.pc = "sweep" /\ lp.node = NULL
    /\ lp' = IF UEV_ONCE \in lp.flags THEN lp_idle
             ELSE [lp EXCEPT !.pc = "loop", !.bits = {}]
    /\ hist' = [hist EXCEPT !.cbs = [w \in W |-> 0], !.owed = [w \in W |-> FALSE],
                            !.due = [w \in W |-> FALSE], !.fresh = {}]
    /\ UNCHANGED <<ctx, uev, iot, ret, poster, setter, sel, now_ms, fdready>>

\* --------------------------------------------------- other tasks and ISRs
\* uev_event_post: atomic_store(&w->u.e.posted, 1) ...
uev_event_post_store(p, w) ==
    /\ Usable /\ poster[p] = NULL
    /\ uev[w].type = UEV_EVENT_TYPE
    /\ uev' = [uev EXCEPT ![w].posted = 1]
    /\ poster' = [poster EXCEPT ![p] = w]
    /\ UNCHANGED <<ctx, iot, ret, lp, setter, sel, now_ms, fdready, hist>>

\* ... then _uev_set_flags(w->ctx, UEV_EG_BIT_EVENT)
uev_event_post_flag(p) ==
    /\ poster[p] # NULL
    /\ ctx' = _uev_set_flags(Mem, {UEV_EG_BIT_EVENT}).ctx
    /\ poster' = [poster EXCEPT ![p] = NULL]
    /\ UNCHANGED <<uev, iot, ret, lp, setter, sel, now_ms, fdready, hist>>

TickTo(max) ==
    /\ now_ms < max
    /\ now_ms' = now_ms + 1
    /\ UNCHANGED <<ctx, uev, iot, ret, lp, poster, setter, sel, fdready, hist>>

\* uev_timer_set on a threadsafe timer, called by another task or an ISR while
\* the loop runs: the triple is written under the watcher's lock ...
uev_timer_set_write(w, timeout, period) ==
    /\ Usable /\ setter.pc = "idle"
    /\ uev[w].type = UEV_TIMER_TS_TYPE
    /\ uev' = [uev EXCEPT ![w].timeout = timeout,
                          ![w].period = period,
                          ![w].deadline =
                              IF ctx.running # 0 /\ timeout # 0
                              THEN (_uev_timer_now \div 1000) + timeout ELSE 0]
    /\ setter' = [pc |-> "flag", w |-> w]
    /\ hist' = Armed(w)
    /\ UNCHANGED <<ctx, iot, ret, lp, poster, sel, now_ms, fdready>>

\* ... then the loop is woken: _uev_set_flags(w->ctx, UEV_EG_BIT_TIMER) ...
uev_timer_set_flag ==
    /\ setter.pc = "flag"
    /\ ctx' = _uev_set_flags(Mem, {UEV_EG_BIT_TIMER}).ctx
    /\ setter' = [setter EXCEPT !.pc = "start"]
    /\ UNCHANGED <<uev, iot, ret, lp, poster, sel, now_ms, fdready, hist>>

\* ... and the watcher is started: return _uev_watcher_start(w)
uev_timer_set_start ==
    /\ setter.pc = "start"
    /\ SetMem(_uev_watcher_start(Mem, setter.w))
    /\ setter' = [pc |-> "idle", w |-> NULL]
    /\ hist' = Started(setter.w)
    /\ UNCHANGED <<lp, poster, sel, now_ms, fdready>>

\* --------------------------------------------------------- iothread.c
\* the events the descriptors of the model become ready for, and the masks asked for
IoBits  == {UEV_READ, UEV_WRITE}
IOMasks == SUBSET IoBits \ {{}}

Call_uev_io_init(w, fd, events) ==
    /\ LoopTask /\ Usable /\ MayInit(w, UEV_IO_TYPE)
    /\ SetMem(uev_io_init(Mem, w, fd, events))
    /\ hist' = hist
    /\ UNCHANGED <<lp, poster, setter, sel, now_ms, fdready>>

Call_uev_io_start(w) ==
    /\ LoopTask /\ Usable /\ uev[w].type = UEV_IO_TYPE
    /\ SetMem(uev_io_start(Mem, w))
    /\ hist' = Started(w)
    /\ UNCHANGED <<lp, poster, setter, sel, now_ms, fdready>>

\* uev_io_start seen by the selector task, which runs while the loop task is inside
\* the call.  _uev_watcher_start up to the end of _uev_iothread_watcher_add: the
\* watcher is active and in the iolist, the wake byte is sent ...
uev_io_start_add(w) ==
    /\ lp.pc = "idle" /\ Usable /\ uev[w].type = UEV_IO_TYPE
    /\ uev[w].ctx # NULL /\ uev[w].fd >= 0 /\ ~_uev_watcher_active(Mem, w)
    /\ SetMem(Ok(_uev_iothread_watcher_add([Mem EXCEPT !.uev[w].active = 1], w)))
    /\ lp' = [lp EXCEPT !.pc = "io_start", !.node = w]
    /\ hist' = Started(w)
    /\ UNCHANGED <<poster, setter, sel, now_ms, fdready>>

\* ... and then _UEV_INSERT(w, w->ctx->watchers): the call returns
uev_io_start_insert ==
    /\ lp.pc = "io_start"
    /\ SetMem(Ok(_UEV_INSERT(Mem, lp.node)))
    /\ lp' = [lp EXCEPT !.pc = "idle", !.node = NULL]
    /\ UNCHANGED <<poster, setter, sel, now_ms, fdready, hist>>

Call_uev_io_stop(w) ==
    /\ LoopTask /\ Usable /\ uev[w].type = UEV_IO_TYPE
    /\ SetMem(uev_io_stop(Mem, w))
    /\ hist' = Stopped(w)
    /\ UNCHANGED <<lp, poster, setter, sel, now_ms, fdready>>

\* uev_iothread_init: the wake socket and the selector task are created
Call_uev_iothread_init ==
    /\ iot.task = NULL
    /\ iot' = [iot EXCEPT !.task = 1, !.fd_local = 0]
    /\ sel' = [sel EXCEPT !.pc = "build"]
    /\ ret' = [ret EXCEPT !.rc = 0]
    /\ hist' = [hist EXCEPT !.tasks = 1, !.socks = 1]
    /\ UNCHANGED <<ctx, uev, lp, poster, setter, now_ms, fdready>>

\* uev_iothread_init when the selector task exists.  CROSSLOG_ASSERT(!task) is the
\* only check: a build with assertions stops the program there, a build without
\* them goes on, and locsock_create and xTaskCreate overwrite fd_local and task
\* with a second socket and a second task.
Call_uev_iothread_init_again ==
    /\ iot.task # NULL /\ ~hist.aborted
    /\ \E asserts \in BOOLEAN :
           IF asserts
           THEN /\ hist' = [hist EXCEPT !.aborted = TRUE]
                /\ UNCHANGED <<iot, ret>>
           ELSE /\ iot' = [iot EXCEPT !.task = 2, !.fd_local = NumFds + 1, !.sock = 0]
                /\ ret' = [ret EXCEPT !.rc = 0]
                /\ hist' = [hist EXCEPT !.tasks = Min(@ + 1, 2), !.socks = Min(@ + 1, 2)]
    /\ UNCHANGED <<ctx, uev, lp, poster, setter, sel, now_ms, fdready>>

\* the watchers of the iolist the selector looks at
IoWatched(w) == _uev_watcher_active(Mem, w) /\ uev[w].fd >= 0

InIolist(w) == \E i \in 1 .. Len(iot.list) : iot.list[i] = w

\* task_fn, first critical section: the descriptor sets are built
task_fn_build ==
    /\ sel.pc = "build"
    /\ LET In(bit) == {uev[w].fd : w \in {x \in W : /\ InIolist(x)
                                                    /\ IoWatched(x)
                                                    /\ uev[x].iot_events = {}
                                                    /\ bit \in uev[x].events}}
       IN  sel' = [pc |-> "select", readfds |-> In(UEV_READ),
                   writefds |-> In(UEV_WRITE), exceptfds |-> In(UEV_ERROR)]
    /\ UNCHANGED <<ctx, uev, iot, ret, lp, poster, setter, now_ms, fdready, hist>>

\* select() returns: a descriptor of the sets is ready or the wake socket holds a
\* byte, which is then read; the sets are left with the ready descriptors
task_fn_select ==
    /\ sel.pc = "select"
    /\ LET Rdy(set, bit) == {fd \in set : bit \in fdready[fd]}
           r == Rdy(sel.readfds, UEV_READ)
           x == Rdy(sel.writefds, UEV_WRITE)
           e == Rdy(sel.exceptfds, UEV_ERROR)
       IN  /\ iot.sock > 0 \/ r \cup x \cup e # {}
           /\ sel' = [pc |-> "update", readfds |-> r, writefds |-> x, exceptfds |-> e]
    /\ iot' = [iot EXCEPT !.sock = IF @ > 0 THEN @ - 1 ELSE @]
    /\ UNCHANGED <<ctx, uev, ret, lp, poster, setter, now_ms, fdready, hist>>

\* the events of the returned sets, not masked with the events w asked for
task_fn_events_unmasked(w) ==
    {b \in UEV_EVENT_MASK :
        uev[w].fd \in (IF b = UEV_READ THEN sel.readfds
                       ELSE IF b = UEV_WRITE THEN sel.writefds
                       ELSE sel.exceptfds)}

\* the events task_fn finds for w in the returned sets
task_fn_events(w) ==
    {b \in UEV_EVENT_MASK :
        /\ b \in uev[w].events
        /\ uev[w].fd \in (IF b = UEV_READ THEN sel.readfds
                          ELSE IF b = UEV_WRITE THEN sel.writefds
                          ELSE sel.exceptfds)}

\* task_fn, second critical section: the ready events are OR-ed into the watchers
task_fn_update ==
    /\ sel.pc = "update"
    /\ LET hit == {w \in W : InIolist(w) /\ IoWatched(w) /\ task_fn_events(w) # {}}
       IN  /\ uev' = [w \in W |-> IF w \in hit
                                  THEN [uev[w] EXCEPT !.iot_events = @ \cup task_fn_events(w)]
                                  ELSE uev[w]]
           /\ ctx' = IF hit # {} THEN _uev_set_flags(Mem, {UEV_EG_BIT_IO}).ctx ELSE ctx
    /\ sel' = [pc |-> "build", readfds |-> {}, writefds |-> {}, exceptfds |-> {}]
    /\ hist' = IF lp.pc = "cb" /\ InIolist(lp.node) /\ IoWatched(lp.node)
               THEN [hist EXCEPT !.ored = @ \cup task_fn_events(lp.node)]
               ELSE hist
    /\ UNCHANGED <<iot, ret, lp, poster, setter, now_ms, fdready>>

\* the environment: a descriptor becomes ready for other events
Env_fd(fd, events) ==
    /\ fdready[fd] # events
    /\ fdready' = [fdready EXCEPT ![fd] = events]
    /\ UNCHANGED <<ctx, uev, iot, ret, lp, poster, setter, sel, now_ms, hist>>

Call_uev_exit ==
    /\ LoopTask /\ Usable
    /\ \A p \in Posters : poster[p] = NULL
    /\ setter.pc = "idle"
    /\ SetMem(uev_exit(Mem))
    /\ hist' = [hist EXCEPT !.owed = [w \in W |-> FALSE],
                            !.due = [w \in W |-> FALSE],
                            !.last = [w \in W |-> -1],
                            !.listed = Listed]
    /\ UNCHANGED <<lp, poster, setter, sel, now_ms, fdready>>

Call_uev_init ==
    /\ lp.pc = "idle" /\ ~Usable
    /\ \A w \in W : uev[w].active = 0
    /\ SetMem(uev_init(Mem))
    /\ hist' = [hist EXCEPT !.listed = {}]
    /\ UNCHANGED <<lp, poster, setter, sel, now_ms, fdready>>

\* ---------------------------------------------------------- specifications
EventNext ==
    \/ \E w \in W : Call_uev_event_init(w)
    \/ \E w \in W : Call_uev_event_stop(w)
    \/ \E f \in {{}, {UEV_ONCE}} : Call_uev_run(f)
    \/ uev_run_loop
    \/ uev_run_wait
    \/ uev_run_visit
    \/ uev_run_cb_return
    \/ uev_run_sweep_end
    \/ \E p \in Posters, w \in W : uev_event_post_store(p, w)
    \/ \E p \in Posters : uev_event_post_flag(p)

\* event watchers only: posts from any task, init and stop from the loop task
EventSpec == Init /\ [][EventNext]_vars


TimerNext ==
    \/ \E w \in TW, t \in Times, p \in Times, ts \in {0, 1} :
           Call_uev_timer_init2(w, t, p, ts)
    \/ \E w \in TW, t \in Times, p \in Times : Call_uev_timer_set(w, t, p)
    \/ \E w \in TW : Call_uev_timer_start(w)
    \/ \E w \in TW : Call_uev_timer_stop(w)
    \/ \E f \in SUBSET {UEV_ONCE, UEV_NONBLOCK} : Call_uev_run(f)
    \/ uev_run_loop
    \/ uev_run_wait
    \/ uev_run_visit
    \/ uev_run_timer_cs
    \/ uev_run_cb_return
    \/ uev_run_sweep_end
    \/ \E w \in TW, t \in Times, p \in Times : uev_timer_set_write(w, t, p)
    \/ uev_timer_set_flag
    \/ uev_timer_set_start
    \/ TickTo(MaxNow)

\* timers only: both variants, set from the loop task and from another task
TimerSpec == Init /\ [][TimerNext]_vars


IoNext ==
    \/ Call_uev_iothread_init
    \/ \E w \in IW, fd \in FDs, ev \in IOMasks : Call_uev_io_init(w, fd, ev)
    \/ \E w \in IW : Call_uev_io_start(w)
    \/ \E w \in IW : Call_uev_io_stop(w)
    \/ \E f \in {{}, {UEV_ONCE}} : Call_uev_run(f)
    \/ uev_run_loop
    \/ uev_run_wait
    \/ uev_run_visit
    \/ uev_run_cb_return
    \/ uev_run_cb_wake
    \/ uev_run_sweep_end
    \/ task_fn_build
    \/ task_fn_select
    \/ task_fn_update
    \/ \E fd \in FDs, ev \in SUBSET IoBits : Env_fd(fd, ev)

\* I/O watchers only, with the selector task
IoSpec == Init /\ [][IoNext]_vars


MixTimes == 0 .. MixMaxTime

\* watcher 1 is an event or an I/O watcher, 2 a timer, 3 a threadsafe timer
ExitNext ==
    \/ Call_uev_event_init(1)
    \/ Call_uev_event_stop(1)
    \/ Call_uev_io_init(1, 1, {UEV_READ})
    \/ Call_uev_io_start(1)
    \/ Call_uev_io_stop(1)
    \/ \E w \in {2, 3}, t \in MixTimes, p \in MixTimes :
           Call_uev_timer_init2(w, t, p, w - 2)
    \/ \E w \in {2, 3} : Call_uev_timer_start(w)
    \/ \E w \in {2, 3} : Call_uev_timer_stop(w)
    \/ Call_uev_exit
    \/ Call_uev_init
    \/ \E f \in {{}, {UEV_ONCE}} : Call_uev_run(f)
    \/ uev_run_loop
    \/ uev_run_wait
    \/ uev_run_visit
    \/ uev_run_timer_cs
    \/ uev_run_cb_return
    \/ uev_run_sweep_end
    \/ TickTo(MixMaxNow)

\* watchers of all kinds in one context, used by the loop task alone, with uev_exit
ExitSpec == Init /\ [][ExitNext]_vars


\* watcher 1 is an event or an I/O watcher on descriptor 1, watcher 2 a timer of
\* either variant; posts, the selector and the clock run beside the loop task
StopNext ==
    \/ Call_uev_event_init(1)
    \/ Call_uev_event_stop(1)
    \/ Call_uev_io_init(1, 1, {UEV_READ})
    \/ Call_uev_io_start(1)
    \/ Call_uev_io_stop(1)
    \/ \E t \in MixTimes, p \in MixTimes, ts \in {0, 1} : Call_uev_timer_init2(2, t, p, ts)
    \/ Call_uev_timer_start(2)
    \/ Call_uev_timer_stop(2)
    \/ Call_uev_run({})
    \/ uev_run_loop
    \/ uev_run_wait
    \/ uev_run_visit
    \/ uev_run_timer_cs
    \/ uev_run_cb_return
    \/ uev_run_cb_wake
    \/ uev_run_sweep_end
    \/ TickTo(MixMaxNow)
    \/ \E p \in Posters : uev_event_post_store(p, 1)
    \/ \E p \in Posters : uev_event_post_flag(p)
    \/ Call_uev_iothread_init
    \/ task_fn_build
    \/ task_fn_select
    \/ task_fn_update
    \/ uev[1].type = UEV_IO_TYPE /\ Env_fd(1, {UEV_READ})

\* stop and start of watchers of all kinds with work pending
StopSpec == Init /\ [][StopNext]_vars


\* a one-shot timer is the only watcher; uev_run(ctx, UEV_ONCE) is called once, then
\* uev_run(ctx, UEV_ONCE | UEV_NONBLOCK) with no time passing in between
OnceNext ==
    \/ \E w \in TW, t \in 1 .. MaxTimeout, ts \in {0, 1} :
           uev[w].type = 0 /\ lp.pc = "idle" /\ Call_uev_timer_init2(w, t, 0, ts)
    \/ ctx.running = 0 /\ (\A w \in TW : uev[w].type # 0) /\ Call_uev_run({UEV_ONCE})
    \/ ctx.running # 0 /\ Call_uev_run({UEV_ONCE, UEV_NONBLOCK})
    \/ uev_run_loop
    \/ uev_run_wait
    \/ uev_run_visit
    \/ uev_run_timer_cs
    \/ uev_run_cb_return
    \/ uev_run_sweep_end
    \/ (ctx.running = 0 \/ lp.flags = {UEV_ONCE}) /\ TickTo(MaxNow)

OnceSpec == Init /\ [][OnceNext]_vars


SetNext ==
    \/ \E w \in TW, t \in 1 .. MaxTimeout, p \in Times :
           uev[w].type = 0 /\ lp.pc = "idle" /\ Call_uev_timer_init2(w, t, p, 1)
    \/ (\A w \in TW : uev[w].type # 0) /\ Call_uev_run({})
    \/ uev_run_loop
    \/ uev_run_wait
    \/ uev_run_visit
    \/ uev_run_timer_cs
    \/ uev_run_cb_return
    \/ uev_run_sweep_end
    \/ \E w \in TW, t \in 1 .. MaxTimeout, p \in Times :
           ctx.running # 0 /\ uev_timer_set_write(w, t, p)
    \/ uev_timer_set_flag
    \/ uev_timer_set_start
    \/ TickTo(MaxNow)

\* threadsafe timers of a running loop, set with a timeout by another task only:
\* no callback calls the library
SetSpec == Init /\ [][SetNext]_vars


NestNext ==
    \/ Call_uev_event_init(1)
    \/ \E t \in 1 .. MixMaxTime, p \in MixTimes, ts \in {0, 1} :
           Call_uev_timer_init2(2, t, p, ts)
    \/ Call_uev_timer_stop(2)
    \/ Call_uev_run({})
    \/ uev_run_loop
    \/ uev_run_wait
    \/ uev_run_visit
    \/ uev_run_timer_cs
    \/ uev_run_cb_return
    \/ uev_run_sweep_end
    \/ TickTo(MaxNow)
    \/ \E p \in Posters : uev_event_post_store(p, 1)
    \/ \E p \in Posters : uev_event_post_flag(p)

\* an event watcher and a timer: the timer is initialised and stopped before uev_run
\* or by the callbacks
NestSpec == Init /\ [][NestNext]_vars


SweepNext ==
    \/ \E w \in {1, 3} : Call_uev_event_init(w)
    \/ Call_uev_event_stop(3)
    \/ \E t \in 1 .. MixMaxTime, p \in MixTimes, ts \in {0, 1} :
           lp.pc = "idle" /\ Call_uev_timer_init2(2, t, p, ts)
    \/ Call_uev_run({})
    \/ uev_run_loop
    \/ uev_run_wait
    \/ uev_run_visit
    \/ uev_run_timer_cs
    \/ uev_run_cb_return
    \/ uev_run_sweep_end
    \/ TickTo(MaxNow)
    \/ \E p \in Posters : uev_event_post_store(p, 1)
    \/ \E p \in Posters : uev_event_post_flag(p)

\* a timer that no callback touches, and two event watchers: the callbacks of the
\* posted one initialise and stop the other
SweepSpec == Init /\ [][SweepNext]_vars


\* the timeouts and periods a caller passes, the refused ones included
AnyTimes == -1 .. MixMaxTime

RangeNext ==
    \/ \E w \in TW, t \in MixTimes, p \in MixTimes, ts \in {0, 1} :
           Call_uev_timer_init2(w, t, p, ts)
    \/ \E w \in TW, t \in MixTimes, p \in MixTimes : Call_uev_timer_set(w, t, p)
    \/ \E w \in TW \cup {NULL}, t \in AnyTimes, p \in AnyTimes :
           Call_uev_timer_set_refused(w, t, p)
    \/ \E w \in TW : Call_uev_timer_stop(w)
    \/ Call_uev_run({})
    \/ uev_run_loop
    \/ uev_run_wait
    \/ uev_run_visit
    \/ uev_run_timer_cs
    \/ uev_run_cb_return
    \/ uev_run_sweep_end
    \/ TickTo(MaxNow)

\* timers set by the loop task with any arguments
RangeSpec == Init /\ [][RangeNext]_vars


InitNext ==
    \/ ~hist.aborted /\ IoNext
    \/ Call_uev_iothread_init_again

\* I/O watchers with the selector task, and uev_iothread_init called any number of
\* times; nothing runs after an assertion has stopped the program
InitSpec == Init /\ [][InitNext]_vars


StartNext ==
    \/ IoNext
    \/ \E w \in IW : uev_io_start_add(w)
    \/ uev_io_start_insert

\* I/O watchers with the selector task; uev_io_start is also taken in the two steps
\* another task can tell apart
StartSpec == Init /\ [][StartNext]_vars


DrainNext ==
    \/ Call_uev_iothread_init
    \/ \E w \in IW, fd \in FDs : lp.pc = "idle" /\ Call_uev_io_init(w, fd, {UEV_READ})
    \/ \E w \in IW : lp.pc = "idle" /\ Call_uev_io_start(w)
    \/ Call_uev_run({})
    \/ uev_run_loop
    \/ uev_run_wait
    \/ uev_run_visit
    \/ uev_run_cb_return
    \/ uev_run_cb_wake
    \/ uev_run_sweep_end
    \/ task_fn_build
    \/ task_fn_select
    \/ task_fn_update
    \/ \E fd \in FDs : Env_fd(fd, {UEV_READ})

\* I/O watchers on descriptors that become readable and are never drained: no
\* callback reads from its descriptor.  The selector task and the loop task are
\* RTOS tasks that run whenever they are not blocked, and callbacks return.
DrainSpec ==
    /\ Init /\ [][DrainNext]_vars
    /\ WF_vars(task_fn_build) /\ WF_vars(task_fn_select) /\ WF_vars(task_fn_update)
    /\ WF_vars(uev_run_loop) /\ WF_vars(uev_run_wait) /\ WF_vars(uev_run_visit)
    /\ WF_vars(uev_run_cb_return) /\ WF_vars(uev_run_cb_wake)
    /\ WF_vars(uev_run_sweep_end)


\* the re-arm loop at the entry of uev_run ends only on a list that ends: uev_run is
\* taken on such lists only
LifeNext ==
    \/ \E w \in TW, t \in 1 .. MaxTimeout : Call_uev_timer_init2(w, t, 0, 1)
    \/ \E w \in TW, t \in 1 .. MaxTimeout : Call_uev_timer_init2_again(w, t, 0)
    \/ \E f \in {{}, {UEV_ONCE}} :
           Walk(uev, ctx.watchers, NumWatchers) = NULL /\ Call_uev_run(f)
    \/ uev_run_loop
    \/ uev_run_wait
    \/ uev_run_visit
    \/ uev_run_timer_cs
    \/ uev_run_cb_return
    \/ uev_run_sweep_end
    \/ TickTo(MaxNow)

\* threadsafe one-shot timers that are initialised again after they fired
LifeSpec == Init /\ [][LifeNext]_vars










\* ------------------------------------------------------------- claims
SweepDone == lp.pc = "sweep" /\ lp.node = NULL

\* C1: every event watcher that was active and posted when the wait of an
\* iteration returned with the EVENT bit (its posts had completed), and that was
\* not stopped in the sweep, has had its callback invoked exactly once when the
\* sweep of that iteration is over.
C1_CoalescedOncePerIteration ==
    SweepDone => \A w \in W : hist.owed[w] => hist.cbs[w] = 1

\* C2: in an iteration no watcher's callback is invoked more than once.
C2_AtMostOncePerIteration ==
    \A w \in W : hist.cbs[w] <= 1

IsTimer(w) == uev[w].type \in {UEV_TIMER_TYPE, UEV_TIMER_TS_TYPE}

\* the dispatcher enters a callback in this step
CbEntered == lp.pc # "cb" /\ lp'.pc = "cb"

\* C3: once a stop call on a watcher has returned, the dispatcher enters no
\* callback of that watcher until a start call on it has returned, whatever is
\* still pending on the watcher; a callback that is running when the watcher is
\* stopped goes on (only the entry of a callback is constrained).
C3_NoCallbackAfterStop ==
    [][CbEntered => ~hist.stopped[lp'.node]]_vars

\* C3, its case: the sweep is at a stopped watcher that still has work pending
\* (an undelivered I/O event with the IO bit taken by this iteration).
C3_Witness ==
    \E w \in W : /\ lp.pc = "sweep" /\ lp.node = w
                 /\ hist.stopped[w]
                 /\ uev[w].type = UEV_IO_TYPE
                 /\ uev[w].iot_events # {}
                 /\ UEV_EG_BIT_IO \in lp.bits

\* C4: a one-shot timer whose callback was invoked has had it invoked exactly
\* once and is reported inactive, in every later state (later iterations, later
\* uev_run calls) until the user sets or starts it again.
C4_OneShotOnceThenInactive ==
    \A w \in W : hist.oneshot[w] >= 1 =>
                    /\ hist.oneshot[w] = 1
                    /\ ~_uev_watcher_active(Mem, w)

\* C5: with a one-shot timer as the only watcher, when the sweep of the blocking
\* uev_run(ctx, UEV_ONCE) is over the timer's callback has been invoked exactly
\* once, and the uev_run(ctx, UEV_ONCE | UEV_NONBLOCK) that follows it at once
\* enters no callback.
C5_OnceRunFiresOneShot ==
    /\ (SweepDone /\ lp.flags = {UEV_ONCE}) => \A w \in TW : hist.cbs[w] = 1
    /\ lp.flags = {UEV_ONCE, UEV_NONBLOCK} => lp.pc # "cb"

\* the time the dispatcher read in the timer case it is leaving
MarkTime == IF lp.pc = "timer_cs" THEN lp.now ELSE now_ms

\* C6: when the callback of a periodic timer is marked for delivery at dispatcher
\* time now, the deadline becomes now + period, and the callback before it (since
\* the timer's deadline was last set by uev_timer_set) was marked at least period
\* milliseconds earlier.
C6_PeriodicRebasedOnNow ==
    [][\A w \in W :
          (CbEntered /\ lp.node = w /\ IsTimer(w) /\ uev'[w].active = 1) =>
              /\ uev'[w].period > 0
              /\ uev'[w].deadline = MarkTime + uev'[w].period
              /\ hist.last[w] # -1 => MarkTime - hist.last[w] >= uev'[w].period]_vars

\* C6, its case: the sweep is at a periodic timer that has fired before and whose
\* deadline was missed by more than a period (the loop was stalled).
C6_Witness ==
    \E w \in W : /\ lp.pc = "sweep" /\ lp.node = w
                 /\ IsTimer(w) /\ uev[w].active = 1
                 /\ uev[w].period > 0
                 /\ hist.last[w] # -1
                 /\ now_ms > uev[w].deadline + uev[w].period

\* C7: a periodic timer with timeout 0 that was armed and linked when the wait of
\* an iteration returned with the clock running has had its callback invoked by
\* the end of that iteration's sweep.
C7_ZeroTimeoutFiresAtStart ==
    SweepDone => \A w \in W : hist.due[w] => hist.last[w] # -1

\* C8: a call of the loop task that starts a stopped timer again with its
\* configured timeout > 0, while the loop is running, leaves the timer active,
\* with a deadline, and linked in the list the dispatcher sweeps, for both
\* variants.
C8_StopStartRearms ==
    [][\A w \in W :
          (/\ IsTimer(w) /\ hist.stopped[w] /\ ~hist'.stopped[w]
           /\ setter' = setter
           /\ ctx.running # 0
           /\ uev[w].timeout > 0
           /\ uev'[w].timeout = uev[w].timeout
           /\ uev'[w].period = uev[w].period
           /\ uev'[w].type = uev[w].type) =>
              /\ uev'[w].active = 1
              /\ uev'[w].deadline > 0
              /\ w \in Reach(uev', ctx'.watchers, NumWatchers)]_vars

\* C9: the events handed to an I/O callback are a non-empty subset of the events
\* the watcher asks for at that time.
C9_IoEventsWithinMask ==
    [][(CbEntered /\ uev[lp.node].type = UEV_IO_TYPE) =>
          /\ lp'.events # {}
          /\ lp'.events \subseteq uev[lp.node].events]_vars

\* C9, its case: an I/O callback runs for a watcher that does not ask for WRITE
\* while its descriptor is ready for WRITE.
C9_Witness ==
    \E w \in W : /\ lp.pc = "cb" /\ lp.node = w
                 /\ uev[w].type = UEV_IO_TYPE
                 /\ UEV_WRITE \notin uev[w].events
                 /\ UEV_WRITE \in fdready[uev[w].fd]

\* C10: after uev_exit has returned the list is empty, running is 0, and every
\* watcher that was in the list is inactive with null prev and next.
C10_ExitEmptiesRegistry ==
    ctx.egh = "deleted" =>
        /\ ctx.watchers = NULL
        /\ ctx.running = 0
        /\ \A w \in hist.listed : /\ uev[w].active = 0
                                  /\ uev[w].prev = NULL
                                  /\ uev[w].next = NULL

\* C10, its case: uev_exit has returned and the list held watchers of three
\* kinds, one of them a threadsafe one-shot timer that had fired (inactive).
C10_Witness ==
    /\ ctx.egh = "deleted"
    /\ hist.listed = W
    /\ hist.oneshot[3] = 1

C12_NoLostEvent ==
    ~ /\ lp.pc = "wait" /\ lp.tickstowait = portMAX_DELAY /\ ctx.egbits = {}
      /\ \A p \in Posters : poster[p] = NULL
      /\ \E w \in Listed : /\ uev[w].type = UEV_EVENT_TYPE /\ uev[w].active = 1
                           /\ uev[w].posted = 1

\* C13: a threadsafe timer that another task has set with a timeout > 0 is waited
\* for.  Whenever the dispatcher sleeps with no wake bit pending and no uev_timer_set
\* in progress, every threadsafe timer whose timeout is still to come is active,
\* has a deadline, and the wait either does not block or its block time ends no later
\* than that deadline.
C13_SetFromTaskIsWaitedFor ==
    (lp.pc = "wait" /\ ctx.egbits = {} /\ setter.pc = "idle") =>
        \A w \in W :
            (uev[w].type = UEV_TIMER_TS_TYPE /\ uev[w].timeout > 0) =>
                /\ uev[w].active = 1 /\ uev[w].deadline > 0
                /\ lp.tickstowait # portMAX_DELAY
                /\ IF lp.tickstowait = 0 THEN TRUE
                   ELSE lp.wait_from + lp.tickstowait * portTICK_PERIOD_MS
                            <= uev[w].deadline

\* C14: a timer that a callback initialised and started is not visited by the sweep
\* that is in progress.
C14_NestedTimerNotVisited ==
    (lp.pc \in {"sweep", "timer_cs"} /\ lp.node # NULL) => lp.node \notin hist.fresh

\* C14, the rest: the dispatcher does not sleep past the deadline of an armed timer,
\* the one a callback initialised included: with no wake bit pending, the wait
\* does not block or its block time ends no later than the deadline.
C14_NestedTimerWaitedFor ==
    (lp.pc = "wait" /\ ctx.egbits = {}) =>
        \A w \in W :
            (IsTimer(w) /\ uev[w].timeout > 0 /\ ~hist.stopped[w]) =>
                /\ uev[w].active = 1 /\ uev[w].deadline > 0
                /\ lp.tickstowait # portMAX_DELAY
                /\ IF lp.tickstowait = 0 THEN TRUE
                   ELSE lp.wait_from + lp.tickstowait * portTICK_PERIOD_MS
                            <= uev[w].deadline

\* C15: a callback that stops or starts a watcher changes nothing for the others.
\* At the end of a sweep every registered, active, armed timer, except one that a
\* callback of this sweep initialised, has been examined: next_deadline is no
\* later than its deadline.
C15_SweepExaminesEveryOther ==
    SweepDone =>
        \A w \in Listed :
            (IsTimer(w) /\ uev[w].active = 1 /\ uev[w].deadline > 0
                        /\ w \notin hist.fresh) =>
                lp.next_deadline <= uev[w].deadline

\* C16: in every state, uev_timer_set with a negative timeout or period on an
\* initialised watcher returns non-zero with ERANGE, and with no watcher or a
\* watcher without context returns non-zero with EINVAL; in both cases the
\* watchers (timeout, period, deadline, active flag, list links), the list head
\* and the wake bits are as before the call.
C16_RefusedSetChangesNothing ==
    \A w \in W \cup {NULL}, t \in AnyTimes, p \in AnyTimes :
        LET r     == uev_timer_set(Mem, w, t, p)
            noctx == IF w = NULL THEN TRUE ELSE uev[w].ctx = NULL
        IN  /\ noctx => (r.rc # 0 /\ r.errno = EINVAL)
            /\ (~noctx /\ (t < 0 \/ p < 0)) => (r.rc # 0 /\ r.errno = ERANGE)
            /\ (noctx \/ t < 0 \/ p < 0) => (r.uev = uev /\ r.ctx = ctx /\ r.iot = iot)

\* C16, its case: a running loop has an armed timer and the last call, a
\* uev_timer_set, was refused with ERANGE.
C16_Witness ==
    /\ ret.rc # 0 /\ ret.errno = ERANGE
    /\ ctx.running # 0
    /\ \E w \in W : IsTimer(w) /\ uev[w].active = 1 /\ uev[w].deadline > 0

\* C17: whatever the sequence of uev_iothread_init calls, at most one selector task
\* and at most one wake socket are ever created, and the program is not stopped.
C17_InitIdempotent ==
    hist.tasks <= 1 /\ hist.socks <= 1 /\ ~hist.aborted

\* C18: a dormant timer has deadline 0.  A timer whose timeout is 0 is dormant: it
\* was never armed, it was set with timeout 0, or it is a one-shot that has fired
\* (the dispatcher zeroes the timeout of a one-shot when it fires).
C18_DormantHasDeadlineZero ==
    \A w \in W : (IsTimer(w) /\ uev[w].timeout = 0) => uev[w].deadline = 0

\* C19: a uev_timer_init or uev_timer_set made while ctx.running = 0 leaves the
\* timer with deadline 0 whatever its timeout, and the entry of uev_run gives
\* every timer of the registry the deadline now + timeout (0 for timeout 0): no
\* deadline of an earlier run is left for the first iteration.
C19_DeadlineZeroUntilRunRearms ==
    [][\A w \in W :
          /\ (/\ ctx.running = 0 /\ ctx'.running = 0
              /\ IsTimer(w)' /\ uev'[w].active = 1 /\ uev'[w] # uev[w])
                 => uev'[w].deadline = 0
          /\ (lp.pc = "idle" /\ lp'.pc = "loop" /\ IsTimer(w) /\ w \in Listed)
                 => uev'[w].deadline = IF uev[w].timeout > 0
                                       THEN now_ms + uev[w].timeout ELSE 0]_vars

\* C19, its case: uev_run was called again and found a registered timer whose
\* deadline of the earlier run had passed.
C19_Witness ==
    lp.pc = "loop" /\ hist.first /\ hist.stale # {}

\* C20: the dispatcher's update block of a threadsafe timer and a uev_timer_set of
\* another task exclude each other.  The block reads the triple, decides and
\* writes as one unit: when it fires the timer and writes its update, the deadline
\* it tested is still the deadline of the watcher and is still passed.
C20_DispatcherBlockExclusive ==
    [][(lp.pc = "timer_cs" /\ lp'.pc = "cb") => uev_run_expired(Mem, lp.node, lp.now)]_vars

\* C21: the pending-events word of an I/O watcher.  The selector's update never
\* takes a bit out of it.  Outside an initialisation of the watcher, a bit leaves
\* it only when the callback of that watcher returns, it is then one of the bits
\* passed to the callback, and no bit that the selector OR-ed in since the
\* dispatcher's load is taken out.
C21_PendingWordClearedAfterDelivery ==
    [][\A w \in W :
          LET lost == uev[w].iot_events \ uev'[w].iot_events
          IN  /\ sel.pc = "update" /\ sel'.pc = "build" => lost = {}
              /\ (lost # {} /\ ~(lp' = lp /\ uev[w].active = 0 /\ uev'[w].active = 0)) =>
                     /\ lp.pc = "cb" /\ lp'.pc # "cb" /\ lp.node = w
                     /\ lost \subseteq lp.events
                     /\ lost \cap hist.ored = {}]_vars

\* the descriptor of w is in every set of the selector that w's events ask for
InSelectSets(w) ==
    /\ UEV_READ  \in uev[w].events => uev[w].fd \in sel.readfds
    /\ UEV_WRITE \in uev[w].events => uev[w].fd \in sel.writefds
    /\ UEV_ERROR \in uev[w].events => uev[w].fd \in sel.exceptfds

\* C22: no lost wake-up of the selector.  While the selector blocks in select with
\* no wake byte in the socket, every active I/O watcher of the iolist with a
\* descriptor >= 0 whose pending-events word is 0 is in the readiness sets: a
\* clear by the dispatcher is always followed by a build that includes the watcher.
\* (Between its clear and its wake byte the dispatcher is about to interrupt the
\* selector: that watcher is waited for, not lost.)
C22_ClearedWatcherReadmitted ==
    (sel.pc = "select" /\ iot.sock = 0) =>
        \A w \in W :
            (/\ InIolist(w) /\ IoWatched(w) /\ uev[w].iot_events = {}
             /\ ~(lp.pc = "cb_wake" /\ lp.node = w)) => InSelectSets(w)

\* C22, its case: the callback of an I/O watcher was delivered in this sweep, its
\* bits were cleared, and the selector is back in select with the watcher in its sets.
C22_Witness ==
    /\ sel.pc = "select" /\ lp.pc = "sweep"
    /\ \E w \in W : /\ uev[w].type = UEV_IO_TYPE /\ hist.cbs[w] = 1
                    /\ InIolist(w) /\ IoWatched(w) /\ uev[w].iot_events = {}
                    /\ InSelectSets(w)

\* C23: in every state, the intermediate states of start and stop included, every
\* watcher of the selector's iolist is linked in the context's watcher list.
C23_IolistSubsetOfLinked ==
    \A w \in W : InIolist(w) => w \in Listed

\* C24: in a blocking run, when the bit-group wait is entered while no timer of the
\* watcher list is armed (every deadline is 0), the wait uses the infinite timeout;
\* this includes the first wait after uev_run was entered.
C24_NoArmedTimerWaitsForever ==
    (/\ lp.pc = "wait" /\ UEV_NONBLOCK \notin lp.flags
     /\ \A w \in Listed : uev[w].type \in {UEV_TIMER_TYPE, UEV_TIMER_TS_TYPE}
                               => uev[w].deadline = 0)
        => lp.tickstowait = portMAX_DELAY

\* C25: the dispatcher decides to invoke a timer's callback only in a step where the
\* clock is above 0, the timer's deadline is above 0 and the clock is beyond that
\* deadline, and it enters a timer's callback only after such a decision; so no
\* callback comes before the deadline and none in an iteration where the clock reads 0.
C25_TimerFiresOnlyPastDeadline ==
    [][\A w \in W :
          uev[w].type \in {UEV_TIMER_TYPE, UEV_TIMER_TS_TYPE} =>
              /\ (/\ lp.pc = "sweep" /\ lp.node = w
                  /\ \/ lp'.pc = "cb"
                     \/ lp'.pc = "timer_cs" /\ lp'.expired)
                     => /\ now_ms > 0
                        /\ uev[w].deadline > 0
                        /\ now_ms > uev[w].deadline
              /\ (lp.node = w /\ lp.pc # "cb" /\ lp'.pc = "cb")
                     => \/ lp.pc = "sweep"
                        \/ lp.pc = "timer_cs" /\ lp.expired]_vars

C25_Witness ==
    /\ lp.pc = "cb" /\ now_ms > 0
    /\ uev[lp.node].type \in {UEV_TIMER_TYPE, UEV_TIMER_TS_TYPE}
    /\ uev[lp.node].active = 1 /\ uev[lp.node].deadline = now_ms + uev[lp.node].period

\* C26 as stated: once a callback of an I/O watcher has returned and its descriptor
\* is still ready (readiness never changes again here), the watcher gets no new
\* pending-events bit.
C26_UndrainedReadinessLost ==
    \A w \in W :
        (/\ uev[w].type = UEV_IO_TYPE /\ hist.cbs[w] >= 1
         /\ ~(lp.pc = "cb" /\ lp.node = w))
            => uev[w].iot_events = {}

\* C26, amended: after a callback of an I/O watcher on a descriptor that stays ready,
\* the readiness is reported again: once the callback has returned the watcher gets
\* a new bit in its pending-events word, and a watcher with a pending bit in a
\* running loop has its callback invoked (again).
C26_UndrainedReadinessReported ==
    \A w \in W :
        /\ (lp.pc = "cb" /\ lp.node = w)
               ~> (~(lp.pc = "cb" /\ lp.node = w) /\ uev[w].iot_events # {})
        /\ (~(lp.pc = "cb" /\ lp.node = w) /\ uev[w].iot_events # {} /\ lp.pc # "idle")
               ~> (lp.pc = "cb" /\ lp.node = w)

C26_Witness ==
    \E w \in W :
        /\ uev[w].type = UEV_IO_TYPE /\ hist.cbs[w] = 1 /\ lp.pc = "sweep"
        /\ fdready[uev[w].fd] = {UEV_READ}
        /\ uev[w].iot_events = {UEV_READ} /\ UEV_EG_BIT_IO \in ctx.egbits

\* C27: the context's list ends (no cycle, so no watcher is met twice), prev and next
\* agree along it, and every watcher that is not on it has null prev and next.
C27_ListWellFormed ==
    /\ Walk(uev, ctx.watchers, NumWatchers) = NULL
    /\ ctx.watchers # NULL => uev[ctx.watchers].prev = NULL
    /\ \A w \in Listed : uev[w].next # NULL => uev[uev[w].next].prev = w
    /\ \A w \in W \ Listed : uev[w].prev = NULL /\ uev[w].next = NULL

\* C28: between the calls of the loop task, every watcher whose active flag is set is
\* reachable from the head of the context's list, and a watcher that is not a
\* threadsafe timer is in the list only while it is active.
C28_ActiveIsLinked ==
    \A w \in W :
        /\ uev[w].active = 1 => w \in Listed
        /\ (w \in Listed /\ uev[w].type # UEV_TIMER_TS_TYPE) => uev[w].active = 1

\* C29: while a callback runs, the loop task holds neither the global critical
\* section nor a timer's lock, so the calls the callback makes can take them.
C29_CallbackHoldsNoLock ==
    lp.pc = "cb" => lp.held = {}

C29_Witness ==
    /\ lp.pc = "cb" /\ lp.held = {}
    /\ uev[lp.node].type = UEV_TIMER_TS_TYPE
    /\ uev[lp.node].period = 0 /\ uev[lp.node].active = 1 /\ setter.pc = "idle"

\* C30: no I/O watcher is stuck.  While the loop blocks in its wait, an active I/O
\* watcher of the list with a non-zero pending-events word has the IO wake bit set,
\* or is still in the selector's current descriptor sets (which will set the bit).
C30_NoStuckIoWatcher ==
    \A w \in W :
        (/\ lp.pc = "wait" /\ uev[w].type = UEV_IO_TYPE
         /\ IoWatched(w) /\ InIolist(w) /\ w \in Listed
         /\ uev[w].iot_events # {})
            => \/ UEV_EG_BIT_IO \in ctx.egbits
               \/ /\ sel.pc \in {"select", "update"}
                  /\ uev[w].fd \in sel.readfds \cup sel.writefds \cup sel.exceptfds

====
